---- MODULE Spec2Model ----
(***************************************************************************)
(* Model of the OSE link protocol core: the slave shard client socket      *)
(* ("Shard Master-Connector", lib/shard/slave) and the peer RX dispatcher   *)
(* (lib/peer/rx.js).  One shard, one peer with one connection wrapper (ws). *)
(*                                                                         *)
(* Every handler runs to completion (single-threaded event loop), so each  *)
(* action below is one whole handler run.  A handler is computed as a      *)
(* function over a machine record m; the record also carries what the run  *)
(* did (frames sent, "done" notifications, exception thrown ...), which is *)
(* kept in the variable last until the handler returns.                    *)
(*                                                                         *)
(* Events: construction of a connector, the four link frames of the        *)
(* dispatcher (open, close, error, command) for any link id, expiry of a   *)
(* reconnect timer, the peer's "connected" event and the loss of the       *)
(* connection, and registration of other sockets in the link table.  The   *)
(* handlers of a connector are reached through the dispatcher only.        *)
(***************************************************************************)
EXTENDS Integers, Sequences, FiniteSets, TLC

\* ---------------------------------------------------------------- bounds
MaxSockets == 2
MaxLid == 2
NumEntries == 1
MaxForeign == 1

Sockets == 1..MaxSockets
Lids == 1..MaxLid
Entries == 1..NumEntries

\* ------------------------------------------------------------- constants
\* backoff delay of the reconnect timer, in ms
BackoffDelay == 1000

\* values of data.synced on the wire: the two booleans and a non-boolean
SyncedValues == {"true", "false", "junk"}

\* error codes an "error" frame can carry; "" is an absent req.code
FrameCodes == {"", "DISCONNECTED", "BOOM"}

\* command names: a handler the connector exposes, a protected name and a
\* name no socket exposes
CommandNames == {"synced", "constructor", "nosuch"}
forbiddenNames == {"constructor"}

\* shapes of the objects other components register in the link table
ForeignKinds == {"passthru", "relay", "callback", "bare"}

NoLink == [kind |-> "none", sock |-> 0]

VARIABLES
  connected,  \* peer.isConnected()
  master,     \* shard.master: a socket, or 0 when absent
  synced,     \* shard.synced
  nsock,      \* number of connector objects created so far
  hasCb,      \* socket was constructed with a completion callback
  sshard,     \* socket.shard is set
  cbArmed,    \* the once('done', cb) listener is still registered
  cbCount,    \* number of invocations of the completion callback
  timers,     \* number of pending setTimeout callbacks of the socket
  subs,       \* peer's once('connected') listeners, in registration order
  links,      \* ws.links: lid -> registered object
  last        \* what the last handler run did

state == <<connected, master, synced, nsock, hasCb, sshard, cbArmed,
           cbCount, timers, subs, links>>
vars == <<connected, master, synced, nsock, hasCb, sshard, cbArmed,
          cbCount, timers, subs, links, last>>

\* ------------------------------------------------------------ the record
NoLog ==
  [op |-> "idle", sock |-> 0, lid |-> 0, arg |-> "", objKind |-> "none",
   c2l |-> "na", thrown |-> "none", done |-> <<>>, tx |-> <<>>,
   calls |-> <<>>, linkErr |-> <<>>, logged |-> <<>>,
   linked |-> [e \in Entries |-> 0], runs |-> [s \in Sockets |-> 0],
   timerSet |-> <<>>, wrappers |-> <<>>, delLids |-> <<>>,
   cache |-> [e \in Entries |-> FALSE], payload |-> "", inTable |-> <<>>]

\* handlers run to completion, one event at a time: the event loop takes an
\* event when the previous handler has returned
Idle == last = NoLog

\* the machine at the start of a handler run: the state, and an empty record
\* of what the run does
Begin(op, s, lid, arg) ==
  [connected |-> connected, master |-> master, synced |-> synced,
   sshard |-> sshard, cbArmed |-> cbArmed, cbCount |-> cbCount,
   timers |-> timers, subs |-> subs, links |-> links,
   log |-> [NoLog EXCEPT !.op = op, !.sock = s, !.lid = lid, !.arg = arg]]

\* the machine at the end of a handler run becomes the next state
Commit(m) ==
  /\ connected' = m.connected
  /\ master' = m.master
  /\ synced' = m.synced
  /\ sshard' = m.sshard
  /\ cbArmed' = m.cbArmed
  /\ cbCount' = m.cbCount
  /\ timers' = m.timers
  /\ subs' = m.subs
  /\ links' = m.links
  /\ last' = m.log

Throw(m, e) == [m EXCEPT !.log.thrown = e]
Ok(m) == m.log.thrown = "none"

\* ------------------------------------------------- EventEmitter 'done'
\* emit with the callback registered by on() instead of once()
EmitOn(m, s, code) ==
  [m EXCEPT !.log.done = Append(@, <<s, code>>),
            !.cbCount[s] = IF m.cbArmed[s] THEN @ + 1 ELSE @]

\* that.emit('done', err): the listener registered with once() runs and is
\* removed
Emit(m, s, code) ==
  [m EXCEPT !.log.done = Append(@, <<s, code>>),
            !.cbCount[s] = IF m.cbArmed[s] THEN @ + 1 ELSE @,
            !.cbArmed[s] = FALSE]

\* ------------------------------------------------------------- link ids
\* Ose.link.prepare(socket): a link id no socket of the connection is
\* registered under; link ids are only compared for equality, so the least
\* free one stands for any of them
FreeLids(table) == {l \in Lids : table[l].kind = "none"}
NewLid(table) ==
  CHOOSE l \in FreeLids(table) : \A k \in FreeLids(table) : l <= k

\* ---------------------------------------------------- connect (private)
\* connect registering its 'connected' listener twice
connectSubscribeTwice(m, s) ==
  LET m0 == [m EXCEPT !.log.runs[s] = @ + 1] IN
  IF m0.connected
  THEN LET lid == NewLid(m0.links)
           m1 == [m0 EXCEPT !.links[lid] = [kind |-> "connector", sock |-> s]]
       IN IF m1.sshard[s]
          THEN [m1 EXCEPT !.log.tx = Append(@, [type |-> "shard", lid |-> lid,
                                                  code |-> ""])]
          ELSE Throw(m1, "TypeError")
  ELSE LET m1 == Emit(m0, s, "DISCONNECTED")
       IN [m1 EXCEPT !.subs = Append(Append(@, s), s)]

\* connect that reports DISCONNECTED without subscribing to 'connected'
connectNoRetry(m, s) ==
  LET m0 == [m EXCEPT !.log.runs[s] = @ + 1] IN
  IF m0.connected
  THEN LET lid == NewLid(m0.links)
           m1 == [m0 EXCEPT !.links[lid] = [kind |-> "connector", sock |-> s]]
       IN IF m1.sshard[s]
          THEN [m1 EXCEPT !.log.tx = Append(@, [type |-> "shard", lid |-> lid,
                                                  code |-> ""])]
          ELSE Throw(m1, "TypeError")
  ELSE Emit(m0, s, "DISCONNECTED")

\* connect(that); on the connected path that.shard.identify() is evaluated
\* after addLink, so a socket without shard is registered and nothing is sent
connect(m, s) ==
  LET m0 == [m EXCEPT !.log.runs[s] = @ + 1] IN
  IF m0.connected
  THEN LET lid == NewLid(m0.links)
           m1 == [m0 EXCEPT !.links[lid] = [kind |-> "connector", sock |-> s]]
       IN IF m1.sshard[s]
          THEN [m1 EXCEPT !.log.tx = Append(@, [type |-> "shard", lid |-> lid,
                                                  code |-> ""])]
          ELSE Throw(m1, "TypeError")
  ELSE LET m1 == Emit(m0, s, "DISCONNECTED")
       IN [m1 EXCEPT !.subs = Append(@, s)]

\* ------------------------------------------------------ close (private)
\* close that never schedules the retry
closeNoRetry(m, s, hasErr, code, c2l) ==
  IF ~m.sshard[s]
  THEN Throw(m, "UNEXPECTED")
  ELSE LET m1 == [m EXCEPT !.synced = FALSE,
                           !.log.c2l = IF c2l THEN "true" ELSE "false"]
       IN IF c2l
          THEN IF ~hasErr THEN Throw(m1, "TypeError") ELSE m1
          ELSE [m1 EXCEPT !.master = 0, !.sshard[s] = FALSE]

\* close that forgets "delete that.shard"
closeKeepShard(m, s, hasErr, code, c2l) ==
  IF ~m.sshard[s]
  THEN Throw(m, "UNEXPECTED")
  ELSE LET m1 == [m EXCEPT !.synced = FALSE,
                           !.log.c2l = IF c2l THEN "true" ELSE "false"]
       IN IF c2l
          THEN IF ~hasErr
               THEN Throw(m1, "TypeError")
               ELSE IF code = "DISCONNECTED"
                    THEN [m1 EXCEPT !.timers[s] = @ + 1,
                                    !.log.timerSet = Append(@, BackoffDelay)]
                    ELSE m1
          ELSE [m1 EXCEPT !.master = 0]

\* close that leaves shard.synced alone when it dismantles
closeNoUnsync(m, s, hasErr, code, c2l) ==
  IF ~m.sshard[s]
  THEN Throw(m, "UNEXPECTED")
  ELSE LET m1 == [m EXCEPT !.log.c2l = IF c2l THEN "true" ELSE "false"]
       IN IF c2l
          THEN IF ~hasErr
               THEN Throw([m1 EXCEPT !.synced = FALSE], "TypeError")
               ELSE IF code = "DISCONNECTED"
                    THEN [m1 EXCEPT !.synced = FALSE, !.timers[s] = @ + 1,
                                    !.log.timerSet = Append(@, BackoffDelay)]
                    ELSE [m1 EXCEPT !.synced = FALSE]
          ELSE [m1 EXCEPT !.master = 0, !.sshard[s] = FALSE]

\* close without its test of that.shard
closeUnguarded(m, s, hasErr, code, c2l) ==
  LET m1 == [m EXCEPT !.synced = FALSE,
                      !.log.c2l = IF c2l THEN "true" ELSE "false"]
  IN IF c2l
     THEN IF ~hasErr
          THEN Throw(m1, "TypeError")
          ELSE IF code = "DISCONNECTED"
               THEN [m1 EXCEPT !.timers[s] = @ + 1,
                               !.log.timerSet = Append(@, BackoffDelay)]
               ELSE m1
     ELSE [m1 EXCEPT !.master = 0, !.sshard[s] = FALSE]

\* close that schedules the retry after every error code
closeRetryAny(m, s, hasErr, code, c2l) ==
  IF ~m.sshard[s]
  THEN Throw(m, "UNEXPECTED")
  ELSE LET m1 == [m EXCEPT !.synced = FALSE,
                           !.log.c2l = IF c2l THEN "true" ELSE "false"]
       IN IF c2l
          THEN IF ~hasErr
               THEN Throw(m1, "TypeError")
               ELSE [m1 EXCEPT !.timers[s] = @ + 1,
                               !.log.timerSet = Append(@, BackoffDelay)]
          ELSE [m1 EXCEPT !.master = 0, !.sshard[s] = FALSE]

\* close(that, err); hasErr is FALSE when it is called without err, and
\* c2l is the answer of shard.check2Link()
close(m, s, hasErr, code, c2l) ==
  IF ~m.sshard[s]
  THEN Throw(m, "UNEXPECTED")
  ELSE LET m1 == [m EXCEPT !.synced = FALSE,
                           !.log.c2l = IF c2l THEN "true" ELSE "false"]
       IN IF c2l
          THEN IF ~hasErr
               THEN Throw(m1, "TypeError")
               ELSE IF code = "DISCONNECTED"
                    THEN [m1 EXCEPT !.timers[s] = @ + 1,
                                    !.log.timerSet = Append(@, BackoffDelay)]
                    ELSE m1
          ELSE [m1 EXCEPT !.master = 0, !.sshard[s] = FALSE]

\* entry of a handler of the socket; inTable records whether the socket is
\* in ws.links at that moment
Called(m, s, name) ==
  [m EXCEPT !.log.calls = Append(@, <<s, name>>),
            !.log.inTable =
               Append(@, \E l \in Lids :
                           m.links[l] = [kind |-> "connector", sock |-> s])]

\* exports.error without its emit('done', err)
SockErrorNoEmit(m, s, code, c2l) ==
  close(Called(m, s, "error"), s, TRUE, code, c2l)

\* exports.error
SockError(m, s, code, c2l) ==
  LET m1 == close(Called(m, s, "error"), s, TRUE, code, c2l)
  IN IF Ok(m1) THEN Emit(m1, s, code) ELSE m1

\* exports.close
SockClose(m, s, c2l) ==
  LET m1 == close(Called(m, s, "close"), s, FALSE, "", c2l)
  IN IF Ok(m1) THEN Emit(m1, s, "CLOSED") ELSE m1

\* Ose.link.error(socket, err) on a connector: its error transition
LinkErrorSock(m, s, code, c2l) ==
  SockError([m EXCEPT !.log.linkErr = Append(@, code)], s, code, c2l)

\* synced applying every payload by its truthiness
SockSyncedApplyAny(m, s, data, c2l) ==
  LET m0 == [Called(m, s, "synced") EXCEPT !.log.payload = data] IN
  IF m0.sshard[s]
  THEN [m0 EXCEPT !.synced = (data # "false")]
  ELSE Throw(m0, "TypeError")

\* exports.synced
SockSynced(m, s, data, c2l) ==
  LET m0 == [Called(m, s, "synced") EXCEPT !.log.payload = data] IN
  IF data \in {"true", "false"}
  THEN IF m0.sshard[s]
       THEN [m0 EXCEPT !.synced = (data = "true")]
       ELSE Throw(m0, "TypeError")
  ELSE LinkErrorSock(m0, s, "invalidSynced", c2l)

\* the loop without its "if (! entry.slaves) continue"
LinkMasterCallsAll(hasSlaves) == 1

\* number of entry.linkMaster() calls the loop of open makes on one entry
LinkMasterCalls(hasSlaves) == IF hasSlaves THEN 1 ELSE 0

\* exports.open
\* cache[e] tells whether entry e of shard.cache has its slaves field set
SockOpen(m, s, data, cache, c2l) ==
  LET m0 == Called(m, s, "open") IN
  IF ~m0.sshard[s]
  THEN Throw(m0, "TypeError")
  ELSE LET m1 == [m0 EXCEPT !.log.cache = cache,
                            !.log.linked =
                      [e \in Entries |-> LinkMasterCalls(cache[e])]]
           m2 == SockSynced(m1, s, data, c2l)
       IN IF Ok(m2) THEN Emit(m2, s, "null") ELSE m2

\* ---------------------------------------------------------------- C()
\* new C(shard, peer, cb)
\* the constructor without its duplicate-master test
ConstructBodyNoCheck(m, s, cb) ==
  connect([m EXCEPT !.master = s, !.sshard[s] = TRUE, !.cbArmed[s] = cb], s)

ConstructBody(m, s, cb) ==
  IF m.master # 0
  THEN Throw(m, "duplicitMaster")
  ELSE LET m1 == [m EXCEPT !.master = s, !.sshard[s] = TRUE,
                           !.cbArmed[s] = cb]
       IN connect(m1, s)

Construct ==
  /\ Idle
  /\ nsock < MaxSockets
  /\ connected => FreeLids(links) # {}
  /\ \E cb \in BOOLEAN :
       LET s == nsock + 1
           m == ConstructBody(Begin("construct", s, 0, ""), s, cb)
       IN \* a construction that throws leaves no object behind
          /\ nsock' = IF Ok(m) THEN s ELSE nsock
          /\ hasCb' = IF Ok(m) THEN [hasCb EXCEPT ![s] = cb] ELSE hasCb
          /\ Commit(m)

\* the callback of a timer that stays scheduled after it fired (setInterval)
TimerFireRepeating(s) ==
  /\ Idle
  /\ timers[s] > 0
  /\ connected => FreeLids(links) # {}
  /\ Commit(connect(Begin("timer", s, 0, ""), s))
  /\ UNCHANGED <<nsock, hasCb>>

\* the timer callback of close(): function() { connect(that); }
TimerFire(s) ==
  /\ Idle
  /\ timers[s] > 0
  /\ connected => FreeLids(links) # {}
  /\ LET m == Begin("timer", s, 0, "")
     IN Commit(connect([m EXCEPT !.timers[s] = @ - 1], s))
  /\ UNCHANGED <<nsock, hasCb>>

\* ------------------------------------------------------------- the peer
\* peer.emit('connected'): every once-listener is removed and then run, in
\* registration order; an exception ends the emit
RECURSIVE RunConnected(_, _)
RunConnected(m, pending) ==
  IF pending = <<>> \/ ~Ok(m)
  THEN m
  ELSE RunConnected(connect([m EXCEPT !.subs = Tail(@)], Head(pending)),
                    Tail(pending))

PeerConnected ==
  /\ Idle
  /\ ~connected
  /\ Len(subs) <= Cardinality(FreeLids(links))
  /\ LET m == Begin("connected", 0, 0, "")
     IN Commit(RunConnected([m EXCEPT !.connected = TRUE], subs))
  /\ UNCHANGED <<nsock, hasCb>>

PeerDisconnected ==
  /\ Idle
  /\ connected
  /\ LET m == Begin("disconnected", 0, 0, "")
     IN Commit([m EXCEPT !.connected = FALSE])
  /\ UNCHANGED <<nsock, hasCb>>

\* ws.addLink(socket) by another component of the node (relay, master-side
\* socket, plain callback ...)
AddLink(kind) ==
  /\ Idle
  /\ FreeLids(links) # {}
  /\ Cardinality({l \in Lids : links[l].kind \in ForeignKinds}) < MaxForeign
  /\ LET lid == NewLid(links)
         m == Begin("addLink", 0, lid, kind)
     IN Commit([m EXCEPT !.links[lid] = [kind |-> kind, sock |-> 0],
                         !.log.objKind = kind])
  /\ UNCHANGED <<nsock, hasCb>>

\* ------------------------------------------------------- shapes of sockets
\* socket.ws is set: a transport pass-through
HasWs(obj) == obj.kind = "passthru"
\* typeof socket.open === 'function'
HasOpen(obj) == obj.kind = "connector"
\* typeof socket[name] === 'function', for the names that are not forbidden
HasMethod(obj, name) == obj.kind = "connector" /\ name = "synced"

\* Ose.link.error(socket, err): the socket's error transition
LinkError(m, obj, code, c2l) ==
  IF obj.kind = "connector"
  THEN LinkErrorSock(m, obj.sock, code, c2l)
  ELSE LET m1 == [m EXCEPT !.log.linkErr = Append(@, code)]
       IN IF obj.kind = "callback"
          THEN [m1 EXCEPT !.log.calls = Append(@, <<0, "callback">>)]
          ELSE m1

\* Ose.link.close(socket, data): the socket's close transition
LinkClose(m, obj, c2l) ==
  IF obj.kind = "connector" THEN SockClose(m, obj.sock, c2l) ELSE m

\* ws.txError(lid, err)
TxError(m, lid, code) ==
  [m EXCEPT !.log.tx = Append(@, [type |-> "error", lid |-> lid,
                                   code |-> code])]

LogError(m, code) == [m EXCEPT !.log.logged = Append(@, code)]

\* ws.delLid(lid)
DelLid(m, lid) ==
  [m EXCEPT !.links[lid] = NoLink, !.log.delLids = Append(@, lid)]

\* --------------------------------------------------- lib/peer/rx.js
\* getLink answering every unknown link id with an error frame
GetLinkMissAlwaysTx(m, lid, type) ==
  IF lid = 0
  THEN LogError(m, "MISSING_LINK")
  ELSE TxError(m, lid, "MISSING_LINK")

\* getLink(ws, req): the machine after a failed lookup; lid 0 is a request
\* without lid
GetLinkMiss(m, lid, type) ==
  IF lid = 0
  THEN LogError(m, "MISSING_LINK")
  ELSE IF type = "error"
       THEN LogError(m, "MISSING_LINK")
       ELSE TxError(m, lid, "MISSING_LINK")

GetLinkHit(m, lid) == lid # 0 /\ m.links[lid].kind # "none"

Found(m, lid) ==
  [m EXCEPT !.log.objKind = m.links[lid].kind, !.log.sock = m.links[lid].sock]

\* error(ws, err, data) of rx.js, called as error(socket, code, 'open'):
\* data is a string, data.lid is undefined
RxLocalError(m, code, dataLid) ==
  LogError(IF dataLid # 0 THEN TxError(m, dataLid, code) ELSE m, code)

\* exports.open
RxOpenBody(m, lid, data, cache, c2l) ==
  IF ~GetLinkHit(m, lid)
  THEN GetLinkMiss(m, lid, "open")
  ELSE LET obj == m.links[lid]
           m1 == Found(m, lid)
       IN IF obj.kind = "relay"
          THEN [m1 EXCEPT !.log.wrappers = Append(@, "WsRelay")]
          ELSE IF ~HasOpen(obj)
               THEN RxLocalError(m1, "MISSING_HANDLER", 0)
               ELSE SockOpen([m1 EXCEPT !.log.wrappers = Append(@, "WsSlave")],
                             obj.sock, data, cache, c2l)

\* exports.close calling ws.delLid after the socket's close transition
RxCloseBodyDelLidLast(m, lid, c2l) ==
  IF ~GetLinkHit(m, lid)
  THEN GetLinkMiss(m, lid, "close")
  ELSE LET obj == m.links[lid]
           m1 == Found(m, lid)
       IN IF obj.kind = "relay"
          THEN Throw(DelLid(m1, lid), "ReferenceError")
          ELSE IF obj.kind = "callback"
               THEN DelLid([m1 EXCEPT !.log.calls =
                                        Append(@, <<0, "callback">>)], lid)
               ELSE DelLid(LinkClose(m1, obj, c2l), lid)

\* exports.close; the relay branch calls Logger.todo, and rx.js declares no
\* Logger: a ReferenceError after ws.delLid
RxCloseBody(m, lid, c2l) ==
  IF ~GetLinkHit(m, lid)
  THEN GetLinkMiss(m, lid, "close")
  ELSE LET obj == m.links[lid]
           m1 == DelLid(Found(m, lid), lid)
       IN IF obj.kind = "relay"
          THEN Throw(m1, "ReferenceError")
          ELSE IF obj.kind = "callback"
               THEN [m1 EXCEPT !.log.calls = Append(@, <<0, "callback">>)]
               ELSE LinkClose(m1, obj, c2l)

\* exports.error without ws.delLid(req.lid)
RxErrorBodyNoDelLid(m, lid, code, c2l) ==
  IF ~GetLinkHit(m, lid)
  THEN GetLinkMiss(m, lid, "error")
  ELSE LinkError(Found(m, lid), m.links[lid],
                 IF code = "" THEN "RX_ERROR" ELSE code, c2l)

\* exports.error
RxErrorBody(m, lid, code, c2l) ==
  IF ~GetLinkHit(m, lid)
  THEN GetLinkMiss(m, lid, "error")
  ELSE LET obj == m.links[lid]
           m1 == DelLid(Found(m, lid), lid)
       IN LinkError(m1, obj, IF code = "" THEN "RX_ERROR" ELSE code, c2l)

\* exports.command without the forbidden-name test
RxCommandBodyNoForbid(m, lid, name, data, newLid, c2l) ==
  IF ~GetLinkHit(m, lid)
  THEN GetLinkMiss(m, lid, "command")
  ELSE LET obj == m.links[lid]
           m1 == Found(m, lid)
       IN IF HasWs(obj)
          THEN [m1 EXCEPT !.log.tx = Append(@, [type |-> "command",
                                                 lid |-> lid, code |-> name])]
          ELSE IF ~HasMethod(obj, name)
               THEN LinkError(m1, obj, "MISSING_HANDLER", c2l)
               ELSE SockSynced(m1, obj.sock, data, c2l)

\* exports.command
RxCommandBody(m, lid, name, data, newLid, c2l) ==
  IF ~GetLinkHit(m, lid)
  THEN GetLinkMiss(m, lid, "command")
  ELSE LET obj == m.links[lid]
           m1 == Found(m, lid)
       IN IF HasWs(obj)
          THEN [m1 EXCEPT !.log.tx = Append(@, [type |-> "command",
                                                 lid |-> lid, code |-> name])]
          ELSE IF name \in forbiddenNames
               THEN LinkError(m1, obj, "FORBIDDEN_HANDLER", c2l)
               ELSE IF ~HasMethod(obj, name)
                    THEN LinkError(m1, obj, "MISSING_HANDLER", c2l)
                    ELSE LET m2 == IF newLid
                                   THEN [m1 EXCEPT !.log.wrappers =
                                                     Append(@, "WsMaster")]
                                   ELSE m1
                         IN SockSynced(m2, obj.sock, data, c2l)

\* A frame's payload, the shard's cache and the answer of check2Link() are
\* read only when the frame reaches a connector socket, and a command's name
\* only when it reaches a registered socket; for every other frame one value
\* of each is enumerated.
IsConnector(lid) == lid # 0 /\ links[lid].kind = "connector"
Answers(lid) == IF IsConnector(lid) THEN BOOLEAN ELSE {FALSE}
Payloads(lid) == IF IsConnector(lid) THEN SyncedValues ELSE {"true"}
Caches(lid) ==
  IF IsConnector(lid) THEN [Entries -> BOOLEAN]
  ELSE {[e \in Entries |-> FALSE]}
Codes(lid) == IF IsConnector(lid) THEN FrameCodes ELSE {""}
\* <<name, data, newLid present>> of a command frame
Commands(lid) ==
  IF lid = 0 \/ links[lid].kind = "none"
  THEN {<<"synced", "true", FALSE>>}
  ELSE {<<n, "true", FALSE>> : n \in CommandNames}
         \cup (IF IsConnector(lid)
               THEN ({"synced"} \X SyncedValues \X {FALSE})
                      \cup {<<"synced", "true", TRUE>>}
               ELSE {})
\* getLink treats all link ids without a registered socket alike: frames are
\* enumerated for every registered link id, for one unregistered link id and
\* for an absent link id (0)
Unregistered == FreeLids(links)
FrameLids ==
  {0} \cup (Lids \ Unregistered)
      \cup {l \in Unregistered : \A k \in Unregistered : l <= k}

RxOpen ==
  /\ Idle
  /\ \E lid \in FrameLids :
       \E data \in Payloads(lid), cache \in Caches(lid), c2l \in Answers(lid) :
         Commit(RxOpenBody(Begin("rx.open", 0, lid, data), lid, data, cache,
                           c2l))
  /\ UNCHANGED <<nsock, hasCb>>

RxClose ==
  /\ Idle
  /\ \E lid \in FrameLids :
       \E c2l \in Answers(lid) :
         Commit(RxCloseBody(Begin("rx.close", 0, lid, ""), lid, c2l))
  /\ UNCHANGED <<nsock, hasCb>>

RxError ==
  /\ Idle
  /\ \E lid \in FrameLids :
       \E code \in Codes(lid), c2l \in Answers(lid) :
         Commit(RxErrorBody(Begin("rx.error", 0, lid, code), lid, code, c2l))
  /\ UNCHANGED <<nsock, hasCb>>

RxCommand ==
  /\ Idle
  /\ \E lid \in FrameLids :
       \E cmd \in Commands(lid), c2l \in Answers(lid) :
         Commit(RxCommandBody(Begin("rx.command", 0, lid, cmd[1]), lid,
                              cmd[1], cmd[2], cmd[3], c2l))
  /\ UNCHANGED <<nsock, hasCb>>

Init ==
  /\ connected \in BOOLEAN
  /\ master = 0
  /\ synced = FALSE
  /\ nsock = 0
  /\ hasCb = [s \in Sockets |-> FALSE]
  /\ sshard = [s \in Sockets |-> FALSE]
  /\ cbArmed = [s \in Sockets |-> FALSE]
  /\ cbCount = [s \in Sockets |-> 0]
  /\ timers = [s \in Sockets |-> 0]
  /\ subs = <<>>
  /\ links = [l \in Lids |-> NoLink]
  /\ last = NoLog

\* the handler returns to the event loop: the record of what it did is
\* dropped, and the next event is taken
Return ==
  /\ last # NoLog
  /\ last' = NoLog
  /\ UNCHANGED state

Next ==
  \/ Construct
  \/ \E s \in Sockets : TimerFire(s)
  \/ PeerConnected
  \/ PeerDisconnected
  \/ \E kind \in ForeignKinds : AddLink(kind)
  \/ RxOpen
  \/ RxClose
  \/ RxError
  \/ RxCommand
  \/ Return

Spec == Init /\ [][Next]_vars

\* ------------------------------------------------------------- liveness
\* The connector and the frames that reach it, without the sockets of other
\* components: those never touch a connector, and without them the link
\* table of the model always has a free link id for a connector (the code
\* never runs out of link ids).
LiveNext ==
  \/ Construct
  \/ \E s \in Sockets : TimerFire(s)
  \/ PeerConnected
  \/ PeerDisconnected
  \/ RxOpen
  \/ RxClose
  \/ RxError
  \/ RxCommand
  \/ Return

\* a handler that runs returns; a timer that is due is served by the event
\* loop however many frames keep arriving
Fairness ==
  /\ WF_vars(Return)
  /\ \A s \in Sockets : SF_vars(TimerFire(s))

LiveSpec == Init /\ [][LiveNext]_vars /\ Fairness

\* ------------------------------------------------------------- properties
\* the 'done' notifications of the last handler run, as error codes
DoneCodes == [i \in DOMAIN last.done |-> last.done[i][2]]
\* the connector socket the last frame was routed to
Target == last.sock
\* number of 'connected' listeners of socket s
Occ(q, s) == Cardinality({i \in DOMAIN q : q[i] = s})
\* link ids under which socket s is registered
Registered(s) == {l \in Lids : links[l] = [kind |-> "connector", sock |-> s]}
\* the last run was a frame of the given types routed to a connector
ToConnector(ops) == last.op \in ops /\ last.objKind = "connector"

\* C1: the shard has at most one master socket at any time; a construction
\* while shard.master is set fails with duplicitMaster, leaves shard.master
\* as it was and runs no connect for the rejected socket.
C1_Step ==
  (last'.op = "construct" /\ master # 0) =>
     /\ last'.thrown = "duplicitMaster"
     /\ master' = master
     /\ last'.runs = [s \in Sockets |-> 0]
     /\ last'.done = <<>> /\ last'.tx = <<>>
     /\ UNCHANGED <<synced, sshard, cbArmed, cbCount, timers, subs, links>>
C1_Inv ==
  /\ Cardinality({s \in Sockets : sshard[s]}) <= 1
  /\ \A s \in Sockets : sshard[s] => master = s
C1_SingleMaster == C1_Inv /\ [][C1_Inv' /\ C1_Step]_vars
C1_Witness ==
  last.op = "construct" /\ last.thrown = "duplicitMaster" /\ master # 0

\* C2 as stated: the callback is invoked exactly once, by the first open,
\* close or error event the socket receives, never before that event.
EventFor(log, s) ==
  \E i \in DOMAIN log.calls :
    log.calls[i][1] = s /\ log.calls[i][2] \in {"open", "close", "error"}
C2_OriginalStep ==
  \A s \in Sockets :
    \* invoked only by an event, and only once
    /\ cbCount'[s] # cbCount[s] =>
         EventFor(last', s) /\ cbCount[s] = 0 /\ cbCount'[s] = 1
    \* an event that finds the callback not yet invoked is the first one
    \* and invokes it
    /\ (EventFor(last', s) /\ hasCb[s] /\ cbCount[s] = 0) => cbCount'[s] = 1
C2_Original == [][C2_OriginalStep]_vars
\* C2 amended: the callback is invoked at most once, by the first 'done'
\* notification the socket emits, which is the DISCONNECTED report of a
\* connect attempt made while the peer is disconnected (also during
\* construction, before any event) or else an open, close or error event.
Emits(log, s) == \E i \in DOMAIN log.done : log.done[i][1] = s
C2_Inv ==
  \A s \in Sockets :
    /\ cbCount[s] <= 1
    /\ hasCb[s] => (cbArmed[s] <=> cbCount[s] = 0)
    /\ ~hasCb[s] => (~cbArmed[s] /\ cbCount[s] = 0)
C2_Step ==
  \A s \in Sockets :
    /\ cbCount'[s] # cbCount[s] =>
         /\ cbCount[s] = 0 /\ cbCount'[s] = 1
         /\ Emits(last', s)
         /\ \/ last'.op \in {"rx.open", "rx.close", "rx.error", "rx.command"}
            \/ /\ last'.op \in {"construct", "timer", "connected"}
               /\ last'.done = <<<<s, "DISCONNECTED">>>>
    /\ (Emits(last', s) /\ hasCb'[s] /\ cbCount[s] = 0) => cbCount'[s] = 1
C2_CallbackOnce == C2_Inv /\ [][C2_Inv' /\ C2_Step]_vars
C2_Witness ==
  \E s \in Sockets :
    hasCb[s] /\ cbCount[s] = 1 /\ Len(last.done) = 2 /\ last.sock = s

\* C3: a connect run while the peer is disconnected reports DISCONNECTED
\* through 'done' at once, sends no frame and registers nothing; a
\* "connected" event runs connect exactly once for every socket waiting for
\* it and for no other socket.
C3_Step ==
  /\ (last'.op \in {"construct", "timer"} /\ ~connected
        /\ last'.thrown = "none") =>
        /\ last'.done = <<<<last'.sock, "DISCONNECTED">>>>
        /\ last'.tx = <<>>
        /\ links' = links
        /\ subs' = Append(subs, last'.sock)
  /\ last'.op = "connected" =>
        /\ \A s \in Sockets :
             last'.runs[s] = (IF Occ(subs, s) > 0 THEN 1 ELSE 0)
        /\ subs' = <<>>
C3_RetryOncePerEvent == [][C3_Step]_vars
C3_Witness ==
  /\ last.op = "connected"
  /\ \E s \in Sockets : last.runs[s] = 1 /\ Registered(s) # {}

\* C4: teardown with code DISCONNECTED while check2Link() is true marks the
\* shard not synced and schedules one retry after the backoff delay;
\* shard.master and socket.shard stay set as long as the timer is pending.
C4_Step ==
  (last'.c2l = "true" /\ last'.linkErr = <<"DISCONNECTED">>) =>
     LET s == last'.sock IN
     /\ ~synced'
     /\ timers' = [timers EXCEPT ![s] = @ + 1]
     /\ last'.timerSet = <<BackoffDelay>>
     /\ master = s /\ master' = s /\ sshard'[s]
C4_Inv == \A s \in Sockets : timers[s] > 0 => master = s /\ sshard[s]
C4_RetryKeepsLink == C4_Inv /\ [][C4_Inv' /\ C4_Step]_vars
C4_Witness ==
  \E s \in Sockets :
    /\ timers[s] = 1 /\ master = s /\ sshard[s] /\ ~synced
    /\ last.op = "rx.error" /\ last.c2l = "true"
    /\ last.timerSet = <<BackoffDelay>>

\* C5: teardown while check2Link() is false marks the shard not synced,
\* clears shard.master and socket.shard in the same step and schedules no
\* timer.
C5_Step ==
  last'.c2l = "false" =>
     /\ ~synced'
     /\ master' = 0
     /\ ~sshard'[last'.sock] /\ sshard[last'.sock]
     /\ last'.timerSet = <<>>
     /\ timers' = timers
C5_Dismantle == [][C5_Step]_vars
C5_Witness ==
  /\ last.c2l = "false" /\ last.op \in {"rx.close", "rx.error"}
  /\ master = 0 /\ last.done # <<>> /\ ~sshard[last.sock]

\* C6: an open, close, error or command frame whose link id is not
\* registered invokes no socket handler and leaves the link table alone;
\* MISSING_LINK is sent back for that link id, except for an error frame,
\* which is only logged.
C6_Step ==
  (/\ last'.op \in {"rx.open", "rx.close", "rx.error", "rx.command"}
   /\ last'.lid # 0
   /\ links[last'.lid].kind = "none") =>
     /\ last'.calls = <<>> /\ last'.linkErr = <<>> /\ last'.wrappers = <<>>
     /\ last'.thrown = "none"
     /\ links' = links
     /\ UNCHANGED state
     /\ last'.logged = (IF last'.op = "rx.error"
                        THEN <<"MISSING_LINK">> ELSE <<>>)
     /\ last'.tx = (IF last'.op = "rx.error" THEN <<>>
                    ELSE <<[type |-> "error", lid |-> last'.lid,
                            code |-> "MISSING_LINK"]>>)
C6_MissingLink == [][C6_Step]_vars
C6_Witness ==
  /\ last.op = "rx.error" /\ last.lid # 0 /\ last.objKind = "none"
  /\ last.logged = <<"MISSING_LINK">> /\ last.tx = <<>>

\* the last run was a command frame with a forbidden name, and it did what
\* the protection demands
C7_Rejected ==
  /\ last.linkErr = <<"FORBIDDEN_HANDLER">>
  /\ \A i \in DOMAIN last.calls : last.calls[i][2] # "synced"
  /\ \A i \in DOMAIN last.tx : last.tx[i].type # "command"
  /\ last.wrappers = <<>>
\* C7 as stated: for every registered socket a command with a forbidden
\* name yields FORBIDDEN_HANDLER on the link; nothing is invoked or
\* forwarded.
C7_Original ==
  (last.op = "rx.command" /\ last.arg \in forbiddenNames
     /\ last.objKind # "none") => C7_Rejected
\* C7 amended: the same for every registered socket that is not a transport
\* pass-through (a pass-through gets every command forwarded verbatim).
C7_ForbiddenHandler ==
  (last.op = "rx.command" /\ last.arg \in forbiddenNames
     /\ last.objKind \notin {"none", "passthru"}) => C7_Rejected
C7_Witness ==
  /\ last.op = "rx.command" /\ last.arg \in forbiddenNames
  /\ last.objKind = "connector" /\ last.linkErr = <<"FORBIDDEN_HANDLER">>
  /\ last.calls = <<<<last.sock, "error">>>>

\* C8: open with a boolean synced = b on a socket linked to its shard calls
\* linkMaster once on every cached entry with slaves and on no other entry,
\* sets shard.synced to b and then emits 'done' without error.
C8_Step ==
  (/\ last'.op = "rx.open" /\ last'.objKind = "connector"
   /\ last'.arg \in {"true", "false"}
   /\ sshard[last'.sock]) =>
     /\ last'.thrown = "none"
     /\ \A e \in Entries : last'.linked[e] = (IF last'.cache[e] THEN 1 ELSE 0)
     /\ synced' = (last'.arg = "true")
     /\ last'.done = <<<<last'.sock, "null">>>>
     /\ last'.calls = <<<<last'.sock, "open">>, <<last'.sock, "synced">>>>
C8_Open == [][C8_Step]_vars
C8_Witness ==
  /\ ToConnector({"rx.open"}) /\ last.arg = "true" /\ synced
  /\ \E e \in Entries : last.cache[e] /\ last.linked[e] = 1
  /\ DoneCodes = <<"null">>

\* C9: a connector is registered in the link table under at most one link id
\* at a time; its registration disappears only in the close or error handler
\* of the dispatcher, by one ws.delLid call, and every ws.delLid call removes
\* a registration that is there.
C9_Step ==
  /\ \A l \in Lids :
       (links[l].kind = "connector" /\ links'[l] # links[l]) =>
          /\ last'.op \in {"rx.close", "rx.error"}
          /\ last'.delLids = <<l>>
          /\ links'[l] = NoLink
  /\ \A i \in DOMAIN last'.delLids :
       /\ Len(last'.delLids) = 1
       /\ links[last'.delLids[i]] # NoLink
       /\ links'[last'.delLids[i]] = NoLink
C9_Inv == \A s \in Sockets : Cardinality(Registered(s)) <= 1
C10_CloseEmitsClosed ==
  (ToConnector({"rx.close"}) /\ last.c2l # "na") =>
     /\ last.thrown = "none"
     /\ last.done = <<<<last.sock, "CLOSED">>>>

\* the close or error transition of socket s ran in the handler run
TerminalOn(log, s) ==
  \E i \in DOMAIN log.calls :
    log.calls[i][1] = s /\ log.calls[i][2] \in {"close", "error"}
ClosedOn(log, s) ==
  \E i \in DOMAIN log.calls : log.calls[i] = <<s, "close">>
IsFailure(d) == d[2] # "null"
\* C11 as stated: every close or error transition of a socket constructed
\* with a completion callback invokes that callback, once.
C11_OriginalStep ==
  \A s \in Sockets :
    (TerminalOn(last', s) /\ hasCb[s]) => cbCount'[s] = cbCount[s] + 1
C11_Original == [][C11_OriginalStep]_vars
\* C11 amended: a close or error transition that completes teardown emits
\* exactly one 'done' notification, carrying CLOSED or the error; the
\* completion callback receives it exactly when the socket has emitted no
\* 'done' before, and is never invoked again.  A transition whose teardown
\* throws (UNEXPECTED, or the failed read of err.code in close) emits nothing
\* and invokes nothing.
C11_Step ==
  \A s \in Sockets :
    TerminalOn(last', s) =>
      IF last'.thrown = "none"
      THEN /\ SelectSeq(last'.done, IsFailure) =
                <<<<s, IF ClosedOn(last', s) THEN "CLOSED"
                       ELSE last'.linkErr[1]>>>>
           /\ cbCount'[s] = cbCount[s] + (IF cbArmed[s] THEN 1 ELSE 0)
           /\ ~cbArmed'[s]
      ELSE /\ last'.thrown \in {"UNEXPECTED", "TypeError"}
           /\ last'.done = <<>>
           /\ cbCount'[s] = cbCount[s]
           /\ cbArmed'[s] = cbArmed[s]
C11_TerminalSurfaced == [][C11_Step]_vars
C11_Witness ==
  /\ ToConnector({"rx.error"}) /\ last.arg = "BOOM"
  /\ hasCb[last.sock] /\ cbCount[last.sock] = 1
  /\ last.done = <<<<last.sock, "BOOM">>>>

\* C12: teardown triggered by an error whose code is not DISCONNECTED while
\* check2Link() is true schedules no retry, runs no connect and leaves
\* shard.master and socket.shard as they were; a retry timer is scheduled
\* only by teardown with code DISCONNECTED, and teardown itself never runs
\* connect.
C12_Step ==
  /\ (last'.c2l = "true" /\ last'.linkErr # <<>>
        /\ last'.linkErr[1] # "DISCONNECTED") =>
        /\ last'.timerSet = <<>>
        /\ timers' = timers /\ subs' = subs
        /\ master' = master /\ sshard' = sshard
        /\ master = last'.sock /\ sshard[last'.sock]
        /\ last'.runs = [s \in Sockets |-> 0]
  /\ (\E s \in Sockets : timers'[s] > timers[s]) =>
        last'.c2l = "true" /\ last'.linkErr = <<"DISCONNECTED">>
  /\ last'.c2l # "na" => last'.runs = [s \in Sockets |-> 0]
C12_OnlyDisconnectedRetries == [][C12_Step]_vars
C12_Witness ==
  /\ ToConnector({"rx.error"}) /\ last.c2l = "true"
  /\ last.linkErr = <<"BOOM">>
  /\ master = last.sock /\ sshard[last.sock]
  /\ timers[last.sock] = 0 /\ last.timerSet = <<>>

\* C13: a close or error transition on a connector whose shard reference is
\* cleared fails with UNEXPECTED: shard.synced and shard.master keep their
\* values, no timer is scheduled, no 'done' is emitted and the completion
\* callback is not invoked.
C13_Step ==
  \A s \in Sockets :
    (TerminalOn(last', s) /\ ~sshard[s]) =>
       /\ last'.thrown = "UNEXPECTED"
       /\ synced' = synced /\ master' = master
       /\ sshard' = sshard
       /\ timers' = timers /\ last'.timerSet = <<>>
       /\ subs' = subs
       /\ last'.done = <<>> /\ last'.tx = <<>>
       /\ cbCount' = cbCount
C13_Unexpected == [][C13_Step]_vars
C13_Witness ==
  /\ ToConnector({"rx.error", "rx.close"}) /\ last.thrown = "UNEXPECTED"
  /\ ~sshard[last.sock]
  /\ master # 0 /\ master # last.sock /\ synced

\* the synced handler of socket s ran in the handler run
SyncedOn(log, s) ==
  \E i \in DOMAIN log.calls : log.calls[i] = <<s, "synced">>
\* C14: the synced handler sets shard.synced to its payload when the payload
\* is a boolean, and reports nothing then; for any other payload it reports
\* invalidSynced through the link-error path, which runs the socket's error
\* transition, and the flag is never set from the payload (teardown leaves it
\* false).
C14_Step ==
  \A s \in Sockets :
    SyncedOn(last', s) =>
      IF last'.payload \in {"true", "false"}
      THEN /\ last'.linkErr = <<>> /\ ~TerminalOn(last', s)
           /\ sshard[s] => /\ synced' = (last'.payload = "true")
                           /\ last'.thrown = "none"
           /\ ~sshard[s] => synced' = synced /\ last'.thrown = "TypeError"
      ELSE /\ last'.linkErr = <<"invalidSynced">>
           /\ TerminalOn(last', s) /\ ~ClosedOn(last', s)
           /\ synced' = (IF sshard[s] THEN FALSE ELSE synced)
C14_SyncedBooleanOnly == [][C14_Step]_vars
C14_Witness ==
  /\ ToConnector({"rx.command"}) /\ last.payload = "junk"
  /\ last.linkErr = <<"invalidSynced">> /\ ~synced
  /\ last.done = <<<<last.sock, "invalidSynced">>>>

\* C15: an open frame for a link id whose registered socket is not a relay
\* and exposes no open handler fails with MISSING_HANDLER, sends an error
\* frame for that link id back to the sender and constructs no delivery
\* wrapper.
C15_OpenMissingHandler ==
  (last.op = "rx.open" /\ last.objKind \in {"passthru", "callback", "bare"}) =>
     /\ last.logged = <<"MISSING_HANDLER">>
     /\ last.tx = <<[type |-> "error", lid |-> last.lid,
                     code |-> "MISSING_HANDLER"]>>
     /\ last.wrappers = <<>>

\* link ids under which socket s is registered in a link table
RegisteredIn(table, s) ==
  {l \in Lids : table[l] = [kind |-> "connector", sock |-> s]}
\* the last frame was a close or error frame for a registered link id
C16_Frame ==
  /\ last'.op \in {"rx.close", "rx.error"}
  /\ last'.lid # 0 /\ links[last'.lid] # NoLink
\* what the dispatcher does on such a frame: one ws.delLid of the frame's
\* link id, before the transition of the socket, which is entered once
C16_Deregisters ==
  C16_Frame =>
    /\ last'.delLids = <<last'.lid>>
    /\ links' = [links EXCEPT ![last'.lid] = NoLink]
    /\ links[last'.lid].kind = "connector" =>
         LET s == links[last'.lid].sock IN
         /\ last'.calls = <<<<s, IF last'.op = "rx.close" THEN "close"
                                 ELSE "error">>>>
         /\ last'.inTable = <<FALSE>>
         /\ RegisteredIn(links', s) = {}
\* a frame for a link id that is not registered reaches no socket
C16_Missing ==
  (/\ last'.op \in {"rx.open", "rx.close", "rx.error", "rx.command"}
   /\ last'.lid # 0 /\ links[last'.lid] = NoLink) =>
     /\ last'.calls = <<>>
     /\ \/ last'.logged = <<"MISSING_LINK">>
        \/ last'.tx = <<[type |-> "error", lid |-> last'.lid,
                         code |-> "MISSING_LINK"]>>
\* C16 as stated: ... and every terminal transition the dispatcher delivers
\* leaves the socket out of the link table, so that a registration sees at
\* most one of them.
C16_OriginalStep ==
  /\ C16_Deregisters
  /\ C16_Missing
  /\ \A s \in Sockets :
       (last'.op \in {"rx.open", "rx.close", "rx.error", "rx.command"}
          /\ TerminalOn(last', s)) => RegisteredIn(links', s) = {}
C16_Step ==
  /\ C16_Deregisters
  /\ C16_Missing
  /\ last'.op \in {"rx.open", "rx.command"} =>
       links' = links /\ last'.delLids = <<>>
RetryPending(s) == timers[s] > 0 \/ Occ(subs, s) > 0
\* the last handler run sent the establish frame for the link id socket s
\* has just been registered under
EstablishSent(s) ==
  \E i \in DOMAIN last.tx :
    last.tx[i].type = "shard" /\ last.tx[i].lid \in Registered(s)
\* C17: if the peer eventually becomes and stays connected, every socket
\* waiting for a retry eventually sends an establish frame carrying its new
\* link id (timers fire, handlers return).
C17_EventuallyEstablish ==
  \A s \in Sockets :
    (<>[]connected) => (RetryPending(s) ~> EstablishSent(s))
C17_Witness ==
  \E s \in Sockets :
    /\ last.op = "connected" /\ connected /\ subs = <<>>
    /\ last.runs[s] = 1 /\ EstablishSent(s) /\ Len(last.tx) = 1
    /\ master = s /\ sshard[s]

\* pending retries of socket s: backoff timers and 'connected' listeners
PendingRetries(s) == timers[s] + Occ(subs, s)
\* C18: a connector has at most one pending retry, timers and "connected"
\* subscriptions counted together, and none while it is registered; a
\* handler run runs connect at most once for a socket, and a retry that runs
\* uses up the pending one and leaves the socket either registered or
\* subscribed once.
C18_Inv ==
  \A s \in Sockets : PendingRetries(s) + Cardinality(Registered(s)) <= 1
C18_Step ==
  \A s \in Sockets :
    /\ last'.runs[s] <= 1
    /\ (last'.op \in {"timer", "connected"} /\ last'.runs[s] = 1) =>
         /\ PendingRetries(s) = 1
         /\ timers'[s] = 0
         /\ Occ(subs', s) + Cardinality(RegisteredIn(links', s)) = 1
C18_OnePendingRetry == C18_Inv /\ [][C18_Inv' /\ C18_Step]_vars
C18_Witness ==
  \E s \in Sockets :
    /\ last.op = "timer" /\ last.sock = s /\ ~connected
    /\ timers[s] = 0 /\ subs = <<s>>
    /\ last.done = <<<<s, "DISCONNECTED">>>>

\* C19: a dismantled connector (socket.shard cleared) is never registered or
\* announced by a later timer expiry or "connected" event, and every
\* connector registered in the link table has its shard reference.
C19_RegisteredHasShard ==
  \A s \in Sockets :
    /\ (last.op \in {"timer", "connected"} /\ last.runs[s] > 0) => sshard[s]
    /\ ~sshard[s] => PendingRetries(s) = 0
    /\ Registered(s) # {} => sshard[s]

\* C20: shard.synced is true only while shard.master is set and that socket
\* refers to the shard; shard.master is socket s exactly when s.shard is the
\* shard.
C20_SyncedNeedsMaster ==
  /\ synced => (master # 0 /\ sshard[master])
  /\ \A s \in Sockets : (master = s) <=> sshard[s]
C20_Witness ==
  /\ nsock = 2 /\ master = 2 /\ sshard[2] /\ ~sshard[1] /\ synced
  /\ ToConnector({"rx.open", "rx.command"}) /\ last.sock = 2
  /\ last.payload = "true"
====
